---- MODULE Spec2Model ----
(***************************************************************************)
(* Model of pkg/healthchecksio/client.go: a client of the healthchecks.io  *)
(* v3 API built on a retrying HTTP client.                                 *)
(*                                                                         *)
(* One client runs one operation at a time.  An operation builds a         *)
(* request, hands it to httpClient.Do (the retry loop of                   *)
(* hashicorp/go-retryablehttp, configured in NewClient), and turns the     *)
(* response or the error into its return values.  The remote side is a     *)
(* scripted transport: it answers the first `n` invocations with one       *)
(* outcome and every later invocation with another.                        *)
(*                                                                         *)
(* Texts (bodies, addresses) are sequences of tokens [t, v]; JSON is       *)
(* parsed from the tokens and decoded into records, as encoding/json       *)
(* does for the struct types of the package.                               *)
(***************************************************************************)
EXTENDS Integers, Sequences, FiniteSets, TLC

(***************************************************************************)
(* Bounds of the model.                                                    *)
(***************************************************************************)
\* the scripted transport fails at most MaxFails times before its final answer
MaxFails == 6

(***************************************************************************)
(* Program constants.                                                      *)
(***************************************************************************)
RetryMax == 5
RetryWaitMin == 500
RetryWaitMax == 4000
StatusOK == 200
StatusCreated == 201

(***************************************************************************)
(* Tokens of a text.  t is the token class: "p" punctuation, "s" a JSON    *)
(* string literal (v is its content, without the quotes), "w" a bare word  *)
(* of raw text.                                                            *)
(***************************************************************************)
P(c) == [t |-> "p", v |-> c]
S(c) == [t |-> "s", v |-> c]
W(c) == [t |-> "w", v |-> c]
LBrace == P("{")
RBrace == P("}")
LBrack == P("[")
RBrack == P("]")
Colon == P(":")
Comma == P(",")

(***************************************************************************)
(* encoding/json: the first JSON value of a token stream.  ParseValue      *)
(* returns [ok, val, next]; next is the position after the value.  Values  *)
(* are [j |-> "str", s], [j |-> "obj", m] (m a sequence of [k, v]) and     *)
(* [j |-> "arr", e].                                                       *)
(***************************************************************************)
ParseFail == [ok |-> FALSE, val |-> [j |-> "none"], next |-> 0]

RECURSIVE ParseValue(_, _), ParseMembers(_, _, _), ParseElems(_, _, _)
ParseValue(ts, p) ==
    IF p > Len(ts) THEN ParseFail
    ELSE IF ts[p].t = "s" THEN [ok |-> TRUE, val |-> [j |-> "str", s |-> ts[p].v], next |-> p + 1]
    ELSE IF ts[p] = LBrace THEN
        IF p + 1 <= Len(ts) /\ ts[p + 1] = RBrace
        THEN [ok |-> TRUE, val |-> [j |-> "obj", m |-> <<>>], next |-> p + 2]
        ELSE ParseMembers(ts, p + 1, <<>>)
    ELSE IF ts[p] = LBrack THEN
        IF p + 1 <= Len(ts) /\ ts[p + 1] = RBrack
        THEN [ok |-> TRUE, val |-> [j |-> "arr", e |-> <<>>], next |-> p + 2]
        ELSE ParseElems(ts, p + 1, <<>>)
    ELSE ParseFail

ParseMembers(ts, p, acc) ==
    IF p + 1 > Len(ts) \/ ts[p].t # "s" \/ ts[p + 1] # Colon THEN ParseFail
    ELSE LET r == ParseValue(ts, p + 2) IN
         IF ~r.ok \/ r.next > Len(ts) THEN ParseFail
         ELSE LET acc2 == Append(acc, [k |-> ts[p].v, v |-> r.val]) IN
              IF ts[r.next] = RBrace
              THEN [ok |-> TRUE, val |-> [j |-> "obj", m |-> acc2], next |-> r.next + 1]
              ELSE IF ts[r.next] = Comma THEN ParseMembers(ts, r.next + 1, acc2)
              ELSE ParseFail

ParseElems(ts, p, acc) ==
    LET r == ParseValue(ts, p) IN
    IF ~r.ok \/ r.next > Len(ts) THEN ParseFail
    ELSE LET acc2 == Append(acc, r.val) IN
         IF ts[r.next] = RBrack
         THEN [ok |-> TRUE, val |-> [j |-> "arr", e |-> acc2], next |-> r.next + 1]
         ELSE IF ts[r.next] = Comma THEN ParseElems(ts, r.next + 1, acc2)
         ELSE ParseFail

\* json.NewDecoder(body).Decode reads one value from the start of the body
FirstValue(ts) == ParseValue(ts, 1)

(***************************************************************************)
(* encoding/json into the struct types of the package.  The model keeps    *)
(* the string fields named below of each type; a field the body does not   *)
(* name keeps its zero value "", a member the type does not name is        *)
(* skipped, and a named member that is not a JSON string is a type error.  *)
(***************************************************************************)
ErrorFields == {"error"}
CheckFields == {"name", "uuid"}
PingFields == {"type"}
FlipFields == {"timestamp"}

\* the members of object value val that set field f, in body order
Setters(val, f) == {i \in 1..Len(val.m) : val.m[i].k = f}

LastOf(set) == CHOOSE i \in set : \A k \in set : k <= i

\* the value a string field ends with: the last well-typed member wins
FieldValue(val, f) ==
    LET good == {i \in Setters(val, f) : val.m[i].v.j = "str"} IN
    IF good = {} THEN "" ELSE val.m[LastOf(good)].v.s

\* json.Unmarshal of a parsed value into a struct of string fields
DecodeStruct(val, fields) ==
    IF val.j # "obj"
    THEN [ok |-> FALSE, val |-> [f \in fields |-> ""]]
    ELSE [ok |-> \A f \in fields : \A i \in Setters(val, f) : val.m[i].v.j = "str",
          val |-> [f \in fields |-> FieldValue(val, f)]]

\* mutant of DecodeList: the struct tag names a member no body has
DecodeList_WrongTag(val, key, fields) ==
    IF val.j # "obj" THEN [ok |-> FALSE, val |-> <<>>] ELSE [ok |-> TRUE, val |-> <<>>]

\* json.Unmarshal into a struct whose one field, named key, is a slice of structs
DecodeList(val, key, fields) ==
    IF val.j # "obj" THEN [ok |-> FALSE, val |-> <<>>]
    ELSE IF Setters(val, key) = {} THEN [ok |-> TRUE, val |-> <<>>]
    ELSE LET arr == val.m[LastOf(Setters(val, key))].v IN
         IF arr.j # "arr" THEN [ok |-> FALSE, val |-> <<>>]
         ELSE [ok |-> \A i \in 1..Len(arr.e) : DecodeStruct(arr.e[i], fields).ok,
               val |-> [i \in 1..Len(arr.e) |-> DecodeStruct(arr.e[i], fields).val]]

\* mutant of DecodeError: the decoded message is not kept
DecodeError_Dropped(body) == ""

\* var err2 Error; json.NewDecoder(resp.Body).Decode(&err2): the decode error
\* is dropped and err2 is used as it is left; Error() returns e.Err
DecodeError(body) ==
    LET r == FirstValue(body) IN
    IF r.ok THEN DecodeStruct(r.val, ErrorFields).val.error ELSE ""

\* the text %v prints for an Error value: no text for the empty message
ErrorText(msg) == IF msg = "" THEN <<>> ELSE <<W(msg)>>

\* json.Marshal of a struct of string fields tagged omitempty, fields in order
RECURSIVE MarshalFields(_, _)
MarshalFields(rec, order) ==
    IF order = <<>> THEN <<>>
    ELSE LET f == Head(order)
             rest == MarshalFields(rec, Tail(order)) IN
         IF rec[f] = "" THEN rest
         ELSE <<S(f), Colon, S(rec[f])>> \o (IF rest = <<>> THEN <<>> ELSE <<Comma>> \o rest)
Marshal(rec, order) == <<LBrace>> \o MarshalFields(rec, order) \o <<RBrace>>

(***************************************************************************)
(* What one invocation of the underlying HTTP transport can produce.       *)
(*   resp     a response: status, Retry-After header (<<>> when absent,    *)
(*            <<seconds>> otherwise) and body                              *)
(*   neterr   a connection-level error the retry policy retries            *)
(*   permerr  an error the retry policy treats as permanent (redirect      *)
(*            loop, unsupported scheme, invalid header, untrusted          *)
(*            certificate)                                                 *)
(*   ctxerr   the request's context was done                               *)
(*   hang     the server accepted the connection and never answers         *)
(***************************************************************************)
Resp(status, ra, body) == [kind |-> "resp", status |-> status, ra |-> ra, body |-> body]
NetErr == [kind |-> "neterr"]
PermErr == [kind |-> "permerr"]
CtxErr == [kind |-> "ctxerr"]
Hang == [kind |-> "hang"]
\* no response (a nil *http.Response)
NoResp == [kind |-> "none"]

(***************************************************************************)
(* Errors and values an operation returns.                                 *)
(***************************************************************************)
NoErr == [kind |-> "nil"]
\* fmt.Errorf("<prefix> %d: %v", resp.StatusCode, ...)
StatusError(prefix, code, text) == [kind |-> "status", prefix |-> prefix, code |-> code, text |-> text]
\* the error of json Decode / io.ReadAll on a body of the expected status
DecodeFailure == [kind |-> "decode"]
\* retryablehttp: "<method> <url> giving up after <attempts> attempt(s)[: <cause>]"
GiveUp(attempts, cause) == [kind |-> "giveup", attempts |-> attempts, cause |-> cause]
\* req.Context().Err()
CtxCanceled == [kind |-> "ctx"]
\* the causes a give-up error wraps
NetCause == [kind |-> "net"]
PermCause == [kind |-> "perm"]
StatusCause(code) == [kind |-> "unexpected status", code |-> code]
\* fmt.Errorf("ping: %v", err)
PingError(e) == [kind |-> "ping", inner |-> e]

NilPtr == [is |-> "nil"]
Ptr(v) == [is |-> "ptr", v |-> v]
Str(ts) == [is |-> "string", v |-> ts]
NoValue == [is |-> "void"]

(***************************************************************************)
(* The retry mechanism as NewClient configures it: retryablehttp's         *)
(* DefaultRetryPolicy and DefaultBackoff with RetryMax, RetryWaitMin and   *)
(* RetryWaitMax.                                                           *)
(***************************************************************************)
\* mutant of CheckRetry: 429 is not retried
CheckRetry_Not429(done, o) ==
    IF done \/ o.kind = "ctxerr" THEN [retry |-> FALSE, err |-> CtxCanceled]
    ELSE IF o.kind = "permerr" THEN [retry |-> FALSE, err |-> PermCause]
    ELSE IF o.kind = "neterr" THEN [retry |-> TRUE, err |-> NoErr]
    ELSE IF o.status = 0 \/ (o.status >= 500 /\ o.status # 501)
         THEN [retry |-> TRUE, err |-> StatusCause(o.status)]
    ELSE [retry |-> FALSE, err |-> NoErr]

\* mutant of CheckRetry: every status from 400 up is retried
CheckRetry_Retrying4xx(done, o) ==
    IF done \/ o.kind = "ctxerr" THEN [retry |-> FALSE, err |-> CtxCanceled]
    ELSE IF o.kind = "permerr" THEN [retry |-> FALSE, err |-> PermCause]
    ELSE IF o.kind = "neterr" THEN [retry |-> TRUE, err |-> NoErr]
    ELSE IF o.status = 0 \/ o.status >= 400
         THEN [retry |-> TRUE, err |-> StatusCause(o.status)]
    ELSE [retry |-> FALSE, err |-> NoErr]

\* CheckRetry(ctx, resp, err): [retry, err]
CheckRetry(done, o) ==
    IF done \/ o.kind = "ctxerr" THEN [retry |-> FALSE, err |-> CtxCanceled]
    ELSE IF o.kind = "permerr" THEN [retry |-> FALSE, err |-> PermCause]
    ELSE IF o.kind = "neterr" THEN [retry |-> TRUE, err |-> NoErr]
    ELSE IF o.status = 429 THEN [retry |-> TRUE, err |-> NoErr]
    ELSE IF o.status = 0 \/ (o.status >= 500 /\ o.status # 501)
         THEN [retry |-> TRUE, err |-> StatusCause(o.status)]
    ELSE [retry |-> FALSE, err |-> NoErr]

RECURSIVE Pow2(_)
Pow2(k) == IF k = 0 THEN 1 ELSE 2 * Pow2(k - 1)

\* mutant of Backoff: the doubled wait is not capped at max
Backoff_Uncapped(min, max, attemptNum, o) ==
    IF o.kind = "resp" /\ o.status \in {429, 503} /\ o.ra # <<>>
    THEN o.ra[1] * 1000
    ELSE Pow2(attemptNum) * min

\* Backoff(min, max, attemptNum, resp) in milliseconds
Backoff(min, max, attemptNum, o) ==
    IF o.kind = "resp" /\ o.status \in {429, 503} /\ o.ra # <<>>
    THEN o.ra[1] * 1000
    ELSE LET mult == Pow2(attemptNum) * min IN
         IF mult > max THEN max ELSE mult

\* mutant of RetriesLeft: RetryMax counts the attempts, the first included
RetriesLeft_CountingAttempts(i) == RetryMax - i > 1

\* whether the loop of Do goes on to another attempt after outcome o of the
\* attempt numbered i (from 0)
RetriesLeft(i) == RetryMax - i > 0
GoesOn(done, o, i) == CheckRetry(done, o).retry /\ RetriesLeft(i)

\* what Do returns when the loop ends with outcome o after `attempts`
\* invocations: [resp, err]; a response handed back has an open body
DoReturn(done, o, attempts) ==
    LET cr == CheckRetry(done, o)
        doErr == IF o.kind = "neterr" THEN NetCause
                 ELSE IF o.kind = "permerr" THEN PermCause
                 ELSE IF o.kind = "ctxerr" THEN CtxCanceled ELSE NoErr
        err == IF cr.err # NoErr THEN cr.err ELSE doErr
    IN  IF doErr = NoErr /\ cr.err = NoErr /\ ~cr.retry
        THEN [resp |-> o, err |-> NoErr]
        ELSE [resp |-> NoResp, err |-> GiveUp(attempts, err)]

(***************************************************************************)
(* Address construction and query strings.                                 *)
(***************************************************************************)
Digit(d) == W(<<"0", "1", "2", "3", "4", "5", "6", "7", "8", "9">>[d + 1])

\* strconv.Itoa / fmt.Sprintf("%d"): the decimal digits of n
RECURSIVE Itoa(_)
Itoa(n) ==
    IF n < 0 THEN <<P("-")>> \o Itoa(0 - n)
    ELSE IF n < 10 THEN <<Digit(n)>>
    ELSE Itoa(n \div 10) \o <<Digit(n % 10)>>

\* url.QueryEscape of one character
EscapeChar(c) ==
    IF c = W(" ") THEN W("+")
    ELSE IF c = W("&") THEN W("%26")
    ELSE IF c = W("=") THEN W("%3D")
    ELSE c
QueryEscape(str) == [i \in 1..Len(str) |-> EscapeChar(str[i])]

\* url.Values.Encode: the pairs set, in the order of their keys, as
\* key=value joined by &; pairs is a sequence of [k, v] sorted by key
RECURSIVE EncodePairs(_)
EncodePairs(pairs) ==
    IF pairs = <<>> THEN <<>>
    ELSE <<W(pairs[1].k), P("=")>> \o QueryEscape(pairs[1].v)
         \o (IF Len(pairs) = 1 THEN <<>> ELSE <<P("&")>> \o EncodePairs(Tail(pairs)))

\* q.Set(k, v) when cond holds
SetIf(cond, k, v) == IF cond THEN <<[k |-> k, v |-> v]>> ELSE <<>>

\* the RawQuery GetChecks builds from its parameters (keys sort slug, tags)
GetChecksQuery(params) ==
    EncodePairs(SetIf(params.Slug # <<>>, "slug", params.Slug)
                \o SetIf(params.Tags # <<>>, "tags", params.Tags))

\* mutant of GetFlipsQuery: a parameter is sent unless it is negative
GetFlipsQuery_ZeroSent(params) ==
    EncodePairs(SetIf(params.End >= 0, "end", Itoa(params.End))
                \o SetIf(params.Seconds >= 0, "seconds", Itoa(params.Seconds))
                \o SetIf(params.Start >= 0, "start", Itoa(params.Start)))

\* the RawQuery GetFlips builds from its parameters (keys sort end, seconds, start)
GetFlipsQuery(params) ==
    EncodePairs(SetIf(params.End > 0, "end", Itoa(params.End))
                \o SetIf(params.Seconds > 0, "seconds", Itoa(params.Seconds))
                \o SetIf(params.Start > 0, "start", Itoa(params.Start)))

(***************************************************************************)
(* The eleven operations: what each puts in its request and expects.       *)
(***************************************************************************)
Ops == {"CreateCheck", "GetChecks", "GetCheck", "UpdateCheck", "DeleteCheck",
        "PauseCheck", "ResumeCheck", "GetPings", "GetPingBody", "GetFlips", "Ping"}

\* the method an operation requests with
Method(o) ==
    IF o \in {"CreateCheck", "UpdateCheck", "PauseCheck", "ResumeCheck", "Ping"} THEN "POST"
    ELSE IF o = "DeleteCheck" THEN "DELETE"
    ELSE "GET"

\* the status an operation compares resp.StatusCode with
Expected(o) == IF o = "CreateCheck" THEN StatusCreated ELSE StatusOK

\* the type an operation decodes a body of the expected status into
RespType(o) ==
    IF o \in {"CreateCheck", "GetCheck", "UpdateCheck", "DeleteCheck", "PauseCheck", "ResumeCheck"}
    THEN "check"
    ELSE IF o = "GetChecks" THEN "checks"
    ELSE IF o = "GetPings" THEN "pings"
    ELSE IF o = "GetFlips" THEN "flips"
    ELSE IF o = "GetPingBody" THEN "raw"
    ELSE "none"

\* the words an operation's status error starts with
Prefix(o) ==
    IF o = "CreateCheck" THEN "create check failed with"
    ELSE IF o = "GetChecks" THEN "get checks failed with"
    ELSE IF o \in {"GetCheck", "GetPings"} THEN "get check failed with"
    ELSE IF o = "UpdateCheck" THEN "update check failed with"
    ELSE IF o = "DeleteCheck" THEN "delete check failed with"
    ELSE IF o = "PauseCheck" THEN "pause check failed with"
    ELSE IF o = "ResumeCheck" THEN "resume check failed with"
    ELSE IF o = "GetPingBody" THEN "get ping body failed with"
    ELSE IF o = "GetFlips" THEN "get flips failed with"
    ELSE "ping failed with"

\* mutant of Headers: DeleteCheck does not set the key
Headers_DeleteWithoutKey(o, key) ==
    IF o = "Ping" THEN {<<"User-Agent", "go-healthchecks-client">>}
    ELSE IF o = "DeleteCheck" THEN {}
    ELSE IF o \in {"CreateCheck", "UpdateCheck"}
         THEN {<<"X-Api-Key", key>>, <<"Content-Type", "application/json">>}
    ELSE {<<"X-Api-Key", key>>}

\* the headers an operation sets on its request, as name -> value pairs
ApiKeyHeader(key) == {<<"X-Api-Key", key>>}
JSONHeader == {<<"Content-Type", "application/json">>}
Headers(o, key) ==
    IF o = "Ping" THEN {<<"User-Agent", "go-healthchecks-client">>}
    ELSE IF o \in {"CreateCheck", "UpdateCheck"} THEN ApiKeyHeader(key) \cup JSONHeader
    ELSE ApiKeyHeader(key)

\* the value a nil-error return carries, decoded from a body of the expected status
Decode(o, body) ==
    LET r == FirstValue(body) IN
    IF RespType(o) = "raw" THEN [ok |-> TRUE, val |-> Str(body)]
    ELSE IF RespType(o) = "none" THEN [ok |-> TRUE, val |-> NoValue]
    ELSE IF ~r.ok THEN [ok |-> FALSE, val |-> NilPtr]
    ELSE LET d == IF RespType(o) = "check" THEN DecodeStruct(r.val, CheckFields)
                  ELSE IF RespType(o) = "checks" THEN DecodeList(r.val, "checks", CheckFields)
                  ELSE IF RespType(o) = "pings" THEN DecodeList(r.val, "pings", PingFields)
                  ELSE DecodeList(r.val, "flips", FlipFields)
         IN [ok |-> d.ok, val |-> IF d.ok THEN Ptr(d.val) ELSE NilPtr]

\* the zero value an operation returns beside a non-nil error
Zero(o) == IF RespType(o) = "raw" THEN Str(<<>>) ELSE IF RespType(o) = "none" THEN NoValue ELSE NilPtr

\* the text of the remote error in a status error
RemoteText(o, body) == IF o = "Ping" THEN body ELSE ErrorText(DecodeError(body))

\* the return values of operation o given what Do returned
Return(o, do) ==
    IF do.err # NoErr
    THEN [val |-> Zero(o), err |-> IF o = "Ping" THEN PingError(do.err) ELSE do.err]
    ELSE IF do.resp.status # Expected(o)
    THEN [val |-> Zero(o), err |-> StatusError(Prefix(o), do.resp.status, RemoteText(o, do.resp.body))]
    ELSE IF ~Decode(o, do.resp.body).ok THEN [val |-> Zero(o), err |-> DecodeFailure]
    ELSE [val |-> Decode(o, do.resp.body).val, err |-> NoErr]

\* the response bodies Do hands the operation: that of the response it
\* returns.  Do itself drains and closes the body of a response it retries
\* or gives up on.
Handed(do) == IF do.resp # NoResp THEN 1 ELSE 0

\* defer resp.Body.Close() after Do: in every operation but Ping
DefersClose(o) == o # "Ping"

\* the response bodies an operation leaves open when it returns
LeftOpen(o, do) == IF DefersClose(o) THEN 0 ELSE Handed(do)

(***************************************************************************)
(* Addresses.  A path is the sequence of its characters, each a string of  *)
(* one character, so that joining and cleaning work on what the caller     *)
(* wrote.  The characters used are letters, digits, "." and "/": on these  *)
(* URL.EscapedPath, URL.setPath and URL.String neither escape nor          *)
(* unescape anything.                                                      *)
(***************************************************************************)
Slash == "/"
Dot == "."

\* strings.HasPrefix(s, "/") and strings.HasSuffix(s, "/")
HasPrefixSlash(s) == Len(s) > 0 /\ s[1] = Slash
HasSuffixSlash(s) == Len(s) > 0 /\ s[Len(s)] = Slash

\* the pieces of s between its slashes, empty ones included
RECURSIVE SplitAt(_, _)
SplitAt(s, cur) ==
    IF s = <<>> THEN <<cur>>
    ELSE IF Head(s) = Slash THEN <<cur>> \o SplitAt(Tail(s), <<>>)
    ELSE SplitAt(Tail(s), Append(cur, Head(s)))

Split(s) == SplitAt(s, <<>>)

\* the elements written with a slash between them
RECURSIVE JoinWithSlash(_)
JoinWithSlash(parts) ==
    IF parts = <<>> THEN <<>>
    ELSE IF Len(parts) = 1 THEN parts[1]
    ELSE parts[1] \o <<Slash>> \o JoinWithSlash(Tail(parts))

\* path.Clean's pass over the elements of a path: an empty element and "."
\* are skipped, ".." takes back the element before it; at the root there is
\* nothing to take back and ".." is skipped, in a relative path it is kept
RECURSIVE CleanParts(_, _, _)
CleanParts(parts, out, rooted) ==
    IF parts = <<>> THEN out
    ELSE LET e == Head(parts) IN
         IF e = <<>> \/ e = <<Dot>> THEN CleanParts(Tail(parts), out, rooted)
         ELSE IF e = <<Dot, Dot>>
         THEN IF out # <<>> /\ out[Len(out)] # <<Dot, Dot>>
              THEN CleanParts(Tail(parts), SubSeq(out, 1, Len(out) - 1), rooted)
              ELSE IF rooted THEN CleanParts(Tail(parts), out, rooted)
              ELSE CleanParts(Tail(parts), Append(out, e), rooted)
         ELSE CleanParts(Tail(parts), Append(out, e), rooted)

\* path.Clean
Clean(s) ==
    IF s = <<>> THEN <<Dot>>
    ELSE LET rooted == HasPrefixSlash(s)
             body == JoinWithSlash(CleanParts(Split(s), <<>>, rooted))
         IN IF rooted THEN <<Slash>> \o body
            ELSE IF body = <<>> THEN <<Dot>> ELSE body

\* the loop of path.Join: leading empty elements are left out, every later
\* element is written after a slash
RECURSIVE JoinBuf(_, _)
JoinBuf(elem, buf) ==
    IF elem = <<>> THEN buf
    ELSE LET e == Head(elem) IN
         IF buf # <<>> THEN JoinBuf(Tail(elem), buf \o <<Slash>> \o e)
         ELSE IF e # <<>> THEN JoinBuf(Tail(elem), e)
         ELSE JoinBuf(Tail(elem), buf)

\* path.Join
PathJoin(elem) ==
    IF \A i \in 1..Len(elem) : elem[i] = <<>> THEN <<>>
    ELSE Clean(JoinBuf(elem, <<>>))

\* URL.JoinPath: path.Join of the URL's path and the elements, with the
\* trailing slash of the last element kept
JoinPath(u, elems) ==
    LET elem == <<u.path>> \o elems
        p == IF ~HasPrefixSlash(elem[1])
             THEN Tail(PathJoin(<<<<Slash>> \o elem[1]>> \o Tail(elem)))
             ELSE PathJoin(elem)
        last == elem[Len(elem)]
    IN [u EXCEPT !.path = IF HasSuffixSlash(last) /\ ~HasSuffixSlash(p)
                          THEN Append(p, Slash) ELSE p]

\* url.Parse of an absolute URL without query: what stands before the path,
\* and the path
URL(root, path) == [root |-> root, path |-> path]

\* client.baseURL, parsed
BaseURL == URL("https://healthchecks.io", <<"/", "a", "p", "i", "/", "v", "3">>)

\* URL.String of a URL with a host: a path that does not start with a slash
\* is written after one
URLString(u) ==
    IF u.path # <<>> /\ ~HasPrefixSlash(u.path) THEN [u EXCEPT !.path = <<Slash>> \o u.path] ELSE u

\* buildAddress
BuildAddress(slugs) == JoinPath(BaseURL, slugs)

\* the fixed path elements of the operations
ChecksSlug == <<"/", "c", "h", "e", "c", "k", "s", "/">>
PauseSlug == <<"/", "p", "a", "u", "s", "e">>
ResumeSlug == <<"/", "r", "e", "s", "u", "m", "e">>
PingsSlug == <<"/", "p", "i", "n", "g", "s", "/">>
BodySlug == <<"/", "b", "o", "d", "y">>
FlipsSlug == <<"/", "f", "l", "i", "p", "s", "/">>
StartSlug == <<"/", "s", "t", "a", "r", "t">>
FailSlug == <<"/", "f", "a", "i", "l">>

\* the characters of strconv.Itoa(n)
ItoaChars(n) == [i \in 1..Len(Itoa(n)) |-> Itoa(n)[i].v]

\* mutant of ApplyOption: WithFail joins "/start" as WithStart does
ApplyOption_AlwaysStart(opt, u) ==
    IF opt = "WithStart" THEN JoinPath(u, <<StartSlug>>) ELSE JoinPath(u, <<StartSlug>>)

\* WithStart() and WithFail(), applied to the address
ApplyOption(opt, u) ==
    IF opt = "WithStart" THEN JoinPath(u, <<StartSlug>>) ELSE JoinPath(u, <<FailSlug>>)

\* for i := range opts { addr = opts[i](addr) }
RECURSIVE ApplyOptions(_, _)
ApplyOptions(opts, u) ==
    IF opts = <<>> THEN u ELSE ApplyOptions(Tail(opts), ApplyOption(Head(opts), u))

(***************************************************************************)
(* Inputs: what callers pass and what the remote side answers.             *)
(***************************************************************************)
APIKeys == {"key-a", "key-b"}
Identifiers == {<<"u", "1">>}
PingURLs == {URL("https://hc-ping.com", <<"/", "u", "1">>)}
PingBodies == {<<W("example"), W("body")>>}
CreateInputs == {[name |-> "n", slug |-> "s"]}
UpdateInputs == {[name |-> "Updated Name", slug |-> ""]}

\* the bodies a server writes: every field of the value, and one the client
\* does not know
ServerCheck(c) ==
    <<LBrace, S("name"), Colon, S(c.name), Comma, S("uuid"), Colon, S(c.uuid),
      Comma, S("status"), Colon, S("new"), RBrace>>
ServerPing(g) == <<LBrace, S("type"), Colon, S(g.type), RBrace>>
ServerFlip(f) == <<LBrace, S("timestamp"), Colon, S(f.timestamp), RBrace>>
ServerList(key, items) == <<LBrace, S(key), Colon, LBrack>> \o items \o <<RBrack, RBrace>>

TheCheck == [name |-> "n", uuid |-> "u1"]
ThePing == [type |-> "success"]
TheFlip == [timestamp |-> "t1"]

\* the value a server holds and the well-formed body it writes for it, per
\* response type
Served(rt) ==
    IF rt = "check" THEN {[v |-> Ptr(TheCheck), body |-> ServerCheck(TheCheck)]}
    ELSE IF rt = "checks" THEN {[v |-> Ptr(<<>>), body |-> ServerList("checks", <<>>)],
                                [v |-> Ptr(<<TheCheck>>), body |-> ServerList("checks", ServerCheck(TheCheck))]}
    ELSE IF rt = "pings" THEN {[v |-> Ptr(<<ThePing>>), body |-> ServerList("pings", ServerPing(ThePing))]}
    ELSE IF rt = "flips" THEN {[v |-> Ptr(<<TheFlip>>), body |-> ServerList("flips", ServerFlip(TheFlip))]}
    ELSE IF rt = "raw" THEN {[v |-> Str(<<W("example"), W("body")>>), body |-> <<W("example"), W("body")>>],
                             [v |-> Str(<<>>), body |-> <<>>]}
    ELSE {[v |-> NoValue, body |-> <<W("OK")>>]}

ErrBody == <<LBrace, S("error"), Colon, S("X"), RBrace>>
Garbage == <<W("<html>")>>
WrongType == <<LBrack, RBrack>>

GoodBodies(o) == {g.body : g \in Served(RespType(o))}
Bodies(o) == GoodBodies(o) \cup {ErrBody, Garbage, WrongType}

\* the failures a script repeats before its final answer
RetryAfters == {<<>>, <<0>>, <<10>>}
Failures ==
    {NetErr, Resp(500, <<>>, ErrBody), Resp(501, <<>>, ErrBody)}
    \cup {Resp(429, ra, ErrBody) : ra \in RetryAfters}
    \cup {Resp(503, ra, ErrBody) : ra \in RetryAfters}

\* the success status the API declares for each operation
DeclaredSuccess(o) == IF o = "CreateCheck" THEN 201 ELSE 200

\* the scripts of the remote side for operation o: a final answer at once,
\* or 1..MaxFails repetitions of one failure and then a final answer
Scripts(o) ==
    {[n |-> 0, first |-> NetErr, then |-> t] :
        t \in {Resp(st, <<>>, b) : st \in {200, 201, 404}, b \in Bodies(o)} \cup {Hang, PermErr}}
    \cup {[n |-> k, first |-> f, then |-> t] :
            k \in 1..MaxFails, f \in Failures,
            t \in {Resp(DeclaredSuccess(o), <<>>, b) : b \in GoodBodies(o)} \cup {Resp(404, <<>>, ErrBody), Hang}}

\* the outcome of the k-th invocation (from 1) under script m
Script(m, k) == IF k <= m.n THEN m.first ELSE m.then

(***************************************************************************)
(* State.                                                                  *)
(*   apiKey      client.apiKey, set by NewClient                           *)
(*   pc          where the one running operation is: "idle" (none          *)
(*               running), "inflight" (an attempt is with the transport),  *)
(*               "waiting" (Do sleeps before the next attempt), "done"     *)
(*               (the operation has returned)                              *)
(*   op          the operation running or last run                         *)
(*   args        the arguments it was called with                          *)
(*   req         the request it built                                      *)
(*   mock        the script the remote side follows                        *)
(*   ctxDone     whether the caller's context is cancelled                 *)
(*   sent        what the transport was invoked with, one entry per        *)
(*               invocation of this operation                              *)
(*   waits       the waits of Do between attempts, in milliseconds         *)
(*   result      the operation's return values                             *)
(*   openBodies  response bodies the operation was handed and has not      *)
(*               closed                                                    *)
(*   cancelled   where the operation was when its context was cancelled    *)
(***************************************************************************)
VARIABLES apiKey, pc, op, args, req, mock, ctxDone, sent, waits, result, openBodies, cancelled

vars == <<apiKey, pc, op, args, req, mock, ctxDone, sent, waits, result, openBodies, cancelled>>

NoArgs == [none |-> TRUE]
NoReq == [method |-> "", url |-> URL("", <<>>), query |-> <<>>, body |-> <<>>, header |-> {}]
NoScript == [n |-> 0, first |-> NetErr, then |-> Hang]
NoResult == [val |-> NoValue, err |-> NoErr]
NotCancelled == [at |-> "none", calls |-> 0]

\* NewClient(apiKey)
Init ==
    /\ apiKey \in APIKeys
    /\ pc = "idle"
    /\ op = "none"
    /\ args = NoArgs
    /\ req = NoReq
    /\ mock = NoScript
    /\ ctxDone = FALSE
    /\ sent = <<>>
    /\ waits = <<>>
    /\ result = NoResult
    /\ openBodies = 0
    /\ cancelled = NotCancelled

\* what the transport is invoked with on attempt k (from 1) of request r:
\* Do sends the same request, headers included, on every attempt
Attempt(r, k) == [method |-> r.method, url |-> r.url, header |-> r.header]

\* an operation builds its request for the text of the address and Do makes
\* the first attempt
Begin(o, a, address, query, body, m) ==
    /\ pc = "idle"
    /\ pc' = "inflight"
    /\ op' = o
    /\ args' = a
    /\ req' = [method |-> Method(o), url |-> URLString(address), query |-> query, body |-> body,
               header |-> Headers(o, apiKey)]
    /\ mock' = m
    /\ ctxDone' = FALSE
    /\ sent' = <<Attempt(req', 1)>>
    /\ waits' = <<>>
    /\ result' = NoResult
    /\ cancelled' = NotCancelled
    /\ openBodies' = 0
    /\ UNCHANGED apiKey

CreateCheckWith(scripts) ==
    /\ pc = "idle"
    /\ \E check \in CreateInputs, m \in scripts :
           Begin("CreateCheck", [check |-> check], BuildAddress(<<ChecksSlug>>), <<>>,
                 Marshal(check, <<"name", "slug">>), m)

GetChecksWith(inputs, scripts) ==
    /\ pc = "idle"
    /\ \E params \in inputs, m \in scripts :
           Begin("GetChecks", [params |-> params], BuildAddress(<<ChecksSlug>>),
                 GetChecksQuery(params), <<>>, m)

GetCheckWith(ids, scripts) ==
    /\ pc = "idle"
    /\ \E identifier \in ids, m \in scripts :
           Begin("GetCheck", [identifier |-> identifier],
                 BuildAddress(<<ChecksSlug, identifier>>), <<>>, <<>>, m)

UpdateCheckWith(ids, scripts) ==
    /\ pc = "idle"
    /\ \E uuid \in ids, update \in UpdateInputs, m \in scripts :
           Begin("UpdateCheck", [uuid |-> uuid, update |-> update],
                 BuildAddress(<<ChecksSlug, uuid>>), <<>>, Marshal(update, <<"name", "slug">>), m)

DeleteCheckWith(ids, scripts) ==
    /\ pc = "idle"
    /\ \E uuid \in ids, m \in scripts :
           Begin("DeleteCheck", [uuid |-> uuid], BuildAddress(<<ChecksSlug, uuid>>), <<>>, <<>>, m)

PauseCheckWith(ids, scripts) ==
    /\ pc = "idle"
    /\ \E uuid \in ids, m \in scripts :
           Begin("PauseCheck", [uuid |-> uuid],
                 BuildAddress(<<ChecksSlug, uuid, PauseSlug>>), <<>>, <<>>, m)

ResumeCheckWith(ids, scripts) ==
    /\ pc = "idle"
    /\ \E uuid \in ids, m \in scripts :
           Begin("ResumeCheck", [uuid |-> uuid],
                 BuildAddress(<<ChecksSlug, uuid, ResumeSlug>>), <<>>, <<>>, m)

GetPingsWith(ids, scripts) ==
    /\ pc = "idle"
    /\ \E identifier \in ids, m \in scripts :
           Begin("GetPings", [identifier |-> identifier],
                 BuildAddress(<<ChecksSlug, identifier, PingsSlug>>), <<>>, <<>>, m)

GetPingBodyWith(ids, scripts) ==
    /\ pc = "idle"
    /\ \E uuid \in ids, n \in {2}, m \in scripts :
           Begin("GetPingBody", [uuid |-> uuid, n |-> n],
                 BuildAddress(<<ChecksSlug, uuid, PingsSlug, ItoaChars(n), BodySlug>>), <<>>, <<>>, m)

GetFlipsWith(ids, inputs, scripts) ==
    /\ pc = "idle"
    /\ \E identifier \in ids, params \in inputs, m \in scripts :
           Begin("GetFlips", [identifier |-> identifier, params |-> params],
                 BuildAddress(<<ChecksSlug, identifier, FlipsSlug>>), GetFlipsQuery(params), <<>>, m)

\* the option lists callers pass Ping: none, WithStart(), WithFail()
PingOptions == {<<>>, <<"WithStart">>, <<"WithFail">>}

PingWith(urls, optss, scripts) ==
    /\ pc = "idle"
    /\ \E pingURL \in urls, body \in PingBodies, opts \in optss, m \in scripts :
           Begin("Ping", [pingURL |-> pingURL, body |-> body, opts |-> opts],
                 ApplyOptions(opts, pingURL), <<>>, body, m)

\* the parameters callers pass GetChecks and GetFlips
FewChecksParams == {[Slug |-> <<>>, Tags |-> <<>>], [Slug |-> <<W("s")>>, Tags |-> <<>>]}
FewFlipsParams == {[Seconds |-> 0, Start |-> 0, End |-> 0], [Seconds |-> 60, Start |-> 0, End |-> 0]}

CreateCheck == CreateCheckWith(Scripts("CreateCheck"))
GetChecks == GetChecksWith(FewChecksParams, Scripts("GetChecks"))
GetCheck == GetCheckWith(Identifiers, Scripts("GetCheck"))
UpdateCheck == UpdateCheckWith(Identifiers, Scripts("UpdateCheck"))
DeleteCheck == DeleteCheckWith(Identifiers, Scripts("DeleteCheck"))
PauseCheck == PauseCheckWith(Identifiers, Scripts("PauseCheck"))
ResumeCheck == ResumeCheckWith(Identifiers, Scripts("ResumeCheck"))
GetPings == GetPingsWith(Identifiers, Scripts("GetPings"))
GetPingBody == GetPingBodyWith(Identifiers, Scripts("GetPingBody"))
GetFlips == GetFlipsWith(Identifiers, FewFlipsParams, Scripts("GetFlips"))
Ping == PingWith(PingURLs, PingOptions, Scripts("Ping"))

\* Do returns and the operation turns what it returned into its return values
Finish(out) ==
    LET do == DoReturn(ctxDone, out, Len(sent)) IN
    /\ pc' = "done"
    /\ result' = Return(op, do)
    /\ openBodies' = openBodies + LeftOpen(op, do)
    /\ UNCHANGED <<apiKey, op, args, req, mock, ctxDone, sent, waits, cancelled>>

\* the transport answers the attempt in flight: Do either sleeps before
\* another attempt or returns
Receive ==
    /\ pc = "inflight"
    /\ ~ctxDone
    /\ LET out == Script(mock, Len(sent)) IN
       /\ out.kind # "hang"
       /\ IF GoesOn(ctxDone, out, Len(waits))
          THEN /\ pc' = "waiting"
               /\ waits' = Append(waits, Backoff(RetryWaitMin, RetryWaitMax, Len(waits), out))
               /\ UNCHANGED <<apiKey, op, args, req, mock, ctxDone, sent, result, openBodies, cancelled>>
          ELSE Finish(out)

\* mutant of Retry: the wait ends in another attempt though the context is done
Retry_IgnoringCancel ==
    /\ pc = "waiting"
    /\ pc' = "inflight"
    /\ sent' = Append(sent, [method |-> req.method, url |-> req.url, header |-> req.header])
    /\ UNCHANGED <<apiKey, op, args, req, mock, ctxDone, waits, result, openBodies, cancelled>>

\* the wait is over: Do makes the next attempt.  The select of Do takes
\* ctx.Done() when the context is done before the timer fires, so the step
\* needs a context that is not done.
Retry ==
    /\ pc = "waiting"
    /\ ~ctxDone
    /\ pc' = "inflight"
    /\ sent' = Append(sent, Attempt(req, Len(sent) + 1))
    /\ UNCHANGED <<apiKey, op, args, req, mock, ctxDone, waits, result, openBodies, cancelled>>

\* the caller cancels the context of the running operation
Cancel ==
    /\ pc \in {"inflight", "waiting"}
    /\ ~ctxDone
    /\ ctxDone' = TRUE
    /\ cancelled' = [at |-> pc, calls |-> Len(sent)]
    /\ UNCHANGED <<apiKey, pc, op, args, req, mock, sent, waits, result, openBodies>>

\* the attempt in flight ends with the context's error; a response that
\* arrives as the context is cancelled is dropped by CheckRetry all the same
AbortAttempt ==
    /\ pc = "inflight"
    /\ ctxDone
    /\ Finish(CtxErr)

\* the select of Do on ctx.Done() during the wait: Do returns ctx.Err()
AbortWait ==
    /\ pc = "waiting"
    /\ ctxDone
    /\ pc' = "done"
    /\ result' = Return(op, [resp |-> NoResp, err |-> CtxCanceled])
    /\ UNCHANGED <<apiKey, op, args, req, mock, ctxDone, sent, waits, openBodies, cancelled>>

\* the caller has the return values; the client is ready for another call
NextCall ==
    /\ pc = "done"
    /\ pc' = "idle"
    /\ op' = "none"
    /\ args' = NoArgs
    /\ req' = NoReq
    /\ mock' = NoScript
    /\ ctxDone' = FALSE
    /\ sent' = <<>>
    /\ waits' = <<>>
    /\ result' = NoResult
    /\ cancelled' = NotCancelled
    /\ openBodies' = 0
    /\ UNCHANGED apiKey

Next ==
    \/ CreateCheck \/ GetChecks \/ GetCheck \/ UpdateCheck \/ DeleteCheck
    \/ PauseCheck \/ ResumeCheck \/ GetPings \/ GetPingBody \/ GetFlips \/ Ping
    \/ Receive \/ Retry \/ Cancel \/ AbortAttempt \/ AbortWait \/ NextCall

Spec == Init /\ [][Next]_vars

(***************************************************************************)
(* Terms the properties below are stated in.  They are written from what  *)
(* the interface promises, apart from the definitions of the model.       *)
(***************************************************************************)
\* the outcome of the latest transport invocation of the running operation
LastOutcome == Script(mock, Len(sent))

\* the operation has returned and its context was never cancelled
ReturnedUncancelled == pc = "done" /\ cancelled.at = "none"

\* a status of the classes the retry policy is said to retry: 429 and 5xx
SaidTransientStatus(st) == st = 429 \/ (st >= 500 /\ st <= 599)
\* a failure of the kinds said to be transient: network error, 5xx, 429
SaidTransient(o) == o.kind = "neterr" \/ (o.kind = "resp" /\ SaidTransientStatus(o.status))
\* the same without 501 Not Implemented
Retried(o) == SaidTransient(o) /\ ~(o.kind = "resp" /\ o.status = 501)

\* the error under the "ping: " wrapping of Ping
Unwrapped(e) == IF e.kind = "ping" THEN e.inner ELSE e

\* an error of the transport-failure kind: the retry mechanism gave up, or
\* the context was cancelled
TransportFailure(e) == Unwrapped(e).kind \in {"giveup", "ctx"}

\* the script answers with the declared success status and a body the
\* server wrote for a value of the operation's response type
EndsWell(m, o) ==
    /\ m.then.kind = "resp"
    /\ m.then.status = DeclaredSuccess(o)
    /\ \E g \in Served(RespType(o)) : m.then.body = g.body

(***************************************************************************)
(* C1.  Every request of every operation carries X-Api-Key, set to the     *)
(* credential given at construction, on the first attempt and on every     *)
(* retry.  As stated, for all eleven operations:                           *)
(***************************************************************************)
CarriesKey(k) == <<"X-Api-Key", apiKey>> \in sent[k].header

C1_EveryRequestCarriesKey == \A k \in 1..Len(sent) : CarriesKey(k)

\* C1 as amended: every request of the ten API operations carries X-Api-Key
\* with the client's credential and no other value, on the first attempt and
\* on every retry; the requests of Ping carry no X-Api-Key header.
C1_ApiRequestsCarryKey ==
    \A k \in 1..Len(sent) :
        /\ op # "Ping" => CarriesKey(k)
        /\ op = "Ping" => \A h \in sent[k].header : h[1] # "X-Api-Key"
        /\ \A h \in sent[k].header : h[1] = "X-Api-Key" => h[2] = apiKey

\* a DeleteCheck whose sixth attempt is in flight
C1_Witness == op = "DeleteCheck" /\ Len(sent) = RetryMax + 1 /\ CarriesKey(RetryMax + 1)

(***************************************************************************)
(* C2.  When the final response's status differs from the expected one,   *)
(* the operation returns no value and an error holding the status code    *)
(* and the remote message: the "error" field of a structured error body,  *)
(* nothing when the body is not one.  As stated, for every operation and  *)
(* every final response:                                                   *)
(***************************************************************************)
RemoteMessage(body) == IF body = ErrBody THEN <<W("X")>> ELSE <<>>

HoldsStatusAndMessage(res, out) ==
    /\ res.val \in {NilPtr, Str(<<>>), NoValue}
    /\ res.err.kind = "status"
    /\ res.err.code = out.status
    /\ res.err.text = RemoteMessage(out.body)

\* C2 as stated: any final response of another status, any operation
C2_MismatchReported ==
    (ReturnedUncancelled /\ LastOutcome.kind = "resp" /\ LastOutcome.status # DeclaredSuccess(op))
        => HoldsStatusAndMessage(result, LastOutcome)

\* C2 as amended: when Do hands an operation a response whose status differs
\* from the expected one (a status that is not retried), the operation returns
\* no value and an error holding the status code and, for the ten API
\* operations, the "error" field of a structured error body (nothing when the
\* body is not one); Ping puts the raw body text in the error instead.
C2_MismatchHandedBackReported ==
    (ReturnedUncancelled /\ LastOutcome.kind = "resp" /\ LastOutcome.status # DeclaredSuccess(op)
        /\ (~SaidTransientStatus(LastOutcome.status) \/ LastOutcome.status = 501))
        => /\ result.val = (IF op = "GetPingBody" THEN Str(<<>>) ELSE IF op = "Ping" THEN NoValue ELSE NilPtr)
           /\ result.err.kind = "status"
           /\ result.err.code = LastOutcome.status
           /\ result.err.text = (IF op = "Ping" THEN LastOutcome.body ELSE RemoteMessage(LastOutcome.body))

\* GetCheck answered 404 {"error": "X"}
C2_Witness ==
    /\ pc = "done" /\ op = "GetCheck"
    /\ LastOutcome = Resp(404, <<>>, ErrBody)
    /\ result.err = StatusError("get check failed with", 404, <<W("X")>>)

(***************************************************************************)
(* C3.  N transient failures (network error, 5xx or 429), N less than the *)
(* maximum attempt count, and then the declared success status with a     *)
(* well-formed body: the operation succeeds after exactly N+1 invocations. *)
(* As stated (N below RetryMax, the smallest reading of the count):        *)
(***************************************************************************)
C3_SucceedsAfterTransient ==
    (ReturnedUncancelled /\ mock.n < RetryMax /\ (mock.n > 0 => SaidTransient(mock.first))
        /\ EndsWell(mock, op))
        => (result.err = NoErr /\ Len(sent) = mock.n + 1)

\* C3 as amended: the same for network errors, 429 and every 5xx other than
\* 501, for every N up to RetryMax (the maximum attempt count is RetryMax + 1);
\* a 501 response is not retried.
C3_SucceedsAfterRetried ==
    (ReturnedUncancelled /\ mock.n <= RetryMax /\ (mock.n > 0 => Retried(mock.first))
        /\ EndsWell(mock, op))
        => (result.err = NoErr /\ Len(sent) = mock.n + 1)

\* GetPings succeeding on the sixth invocation after five 503 responses
C3_Witness ==
    /\ pc = "done" /\ op = "GetPings" /\ cancelled.at = "none"
    /\ mock.n = RetryMax /\ mock.first = Resp(503, <<>>, ErrBody)
    /\ result = [val |-> Ptr(<<ThePing>>), err |-> NoErr]
    /\ Len(sent) = RetryMax + 1

(***************************************************************************)
(* C4.  A transport that always fails transiently, a caller that never     *)
(* cancels: the operation fails after exactly max-attempts invocations,    *)
(* 5 in NewClient, and returns the last underlying failure.  As stated:    *)
(***************************************************************************)
AlwaysFails == mock.n > RetryMax /\ Retried(mock.first)

LastFailure(f) ==
    IF f.kind = "neterr" THEN NetCause
    ELSE IF f.status = 429 THEN NoErr
    ELSE StatusCause(f.status)

C5_CancelStopsRetries ==
    cancelled.at # "none" =>
        /\ cancelled.at \in {"inflight", "waiting"}
        /\ Len(sent) = cancelled.calls
        /\ pc = "waiting" => ~ENABLED Retry
        /\ pc = "done" => /\ TransportFailure(result.err)
                          /\ result.val \in {NilPtr, Str(<<>>), NoValue}

\* GetChecks cancelled during the wait after its second attempt
C5_Witness ==
    /\ pc = "done" /\ op = "GetChecks"
    /\ cancelled = [at |-> "waiting", calls |-> 2]
    /\ Len(waits) = 2
    /\ result.err = CtxCanceled

(***************************************************************************)
(* C6.  An application failure is never retried: a response whose status   *)
(* is a non-transient mismatch (a 4xx other than 429, an unexpected 2xx)   *)
(* ends the operation, with an error carrying that status; when it answers *)
(* the first attempt the transport was invoked exactly once.               *)
(***************************************************************************)
ApplicationFailure(o, out) ==
    /\ out.kind = "resp"
    /\ out.status # DeclaredSuccess(o)
    /\ \/ (out.status >= 400 /\ out.status <= 499 /\ out.status # 429)
       \/ (out.status >= 200 /\ out.status <= 299)

Least(a, b) == IF a < b THEN a ELSE b

\* C7 as stated: every wait within 500..4000 ms, doubling from 500 until capped
C7_WaitsDoubleWithinBounds ==
    \A k \in 1..Len(waits) :
        /\ waits[k] >= 500 /\ waits[k] <= 4000
        /\ k = 1 => waits[k] = 500
        /\ k > 1 => waits[k] = Least(2 * waits[k - 1], 4000)

\* the failure that preceded the k-th wait carried a Retry-After header the
\* backoff honours
RetryAfterSent(k) ==
    LET out == Script(mock, k) IN
    out.kind = "resp" /\ out.status \in {429, 503} /\ out.ra # <<>>

\* 500 * 2^(k-1) milliseconds
RECURSIVE Doubled(_)
Doubled(k) == IF k = 1 THEN 500 ELSE 2 * Doubled(k - 1)

\* C7 as amended: the k-th wait of an operation is 500 ms doubled k-1 times and
\* capped at 4 s, so within the policy's bounds and non-decreasing, except
\* after a 429 or 503 response that carries a Retry-After header: that wait
\* is the header's number of seconds, whatever the policy's bounds.
C7_WaitsDoubleUnlessRetryAfter ==
    /\ Len(waits) <= RetryMax
    /\ \A k \in 1..Len(waits) :
        IF RetryAfterSent(k)
        THEN waits[k] = 1000 * Script(mock, k).ra[1]
        ELSE /\ waits[k] = Least(Doubled(k), 4000)
             /\ waits[k] >= 500 /\ waits[k] <= 4000
             /\ (k > 1 /\ ~RetryAfterSent(k - 1)) => waits[k] = Least(2 * waits[k - 1], 4000)

\* the five waits of an operation retried after 429 responses without Retry-After
C7_Witness ==
    /\ mock.first = Resp(429, <<>>, ErrBody)
    /\ waits = <<500, 1000, 2000, 4000, 4000>>

(***************************************************************************)
(* C8.  Every operation returns in the end, also when the caller gives no  *)
(* deadline and whatever the remote side does, a server that accepts the   *)
(* connection and never answers included: an operation that has not        *)
(* returned can always take a step of its own, without the caller          *)
(* cancelling.                                                             *)
(***************************************************************************)
OperationStep == Receive \/ Retry \/ AbortAttempt \/ AbortWait

\* C8: an operation that has not returned has a step of its own to take
C8_OperationNeverBlocks == pc \in {"inflight", "waiting"} => ENABLED OperationStep

Texts == {<<>>, <<W("s")>>, <<W("a"), W(" "), W("b")>>}
Numbers == {0 - 1, 0, 1, 12}
AllChecksParams == {[Slug |-> sl, Tags |-> tg] : sl \in Texts, tg \in Texts}
AllFlipsParams == {[Seconds |-> se, Start |-> st, End |-> en] : se \in Numbers, st \in Numbers, en \in Numbers}

\* a server that answers every request at once with the success status
Answering(o) == {[n |-> 0, first |-> NetErr, then |-> Resp(DeclaredSuccess(o), <<>>, b)] : b \in GoodBodies(o)}

GetChecksAny == GetChecksWith(AllChecksParams, Answering("GetChecks"))
GetFlipsAny == GetFlipsWith(Identifiers, AllFlipsParams, Answering("GetFlips"))

NextQuery == GetChecksAny \/ GetFlipsAny \/ Receive \/ NextCall

SpecQuery == Init /\ [][NextQuery]_vars

\* the keys of a query text, and the positions where each stands
KeyPositions(q, key) == {i \in 1..Len(q) : q[i] = W(key) /\ i < Len(q) /\ q[i + 1] = P("=")
                                           /\ (i = 1 \/ q[i - 1] = P("&"))}
Sends(q, key) == KeyPositions(q, key) # {}

\* every = of the query has a key before it and a value after it
NoEmptyPair(q) ==
    \A i \in 1..Len(q) :
        /\ q[i] = P("=") => (i > 1 /\ q[i - 1].t = "w" /\ i < Len(q) /\ q[i + 1].t = "w")
        /\ q[i] = P("&") => (i > 1 /\ i < Len(q) /\ q[i + 1].t = "w")

\* C10: a key is in the query exactly when its parameter is set; no empty pair
C10_QueryHoldsSetParameters ==
    /\ op = "GetChecks" =>
        /\ Sends(req.query, "slug") <=> args.params.Slug # <<>>
        /\ Sends(req.query, "tags") <=> args.params.Tags # <<>>
        /\ \A key \in {"slug", "tags"} : Cardinality(KeyPositions(req.query, key)) <= 1
        /\ NoEmptyPair(req.query)
    /\ op = "GetFlips" =>
        /\ Sends(req.query, "seconds") <=> args.params.Seconds > 0
        /\ Sends(req.query, "start") <=> args.params.Start > 0
        /\ Sends(req.query, "end") <=> args.params.End > 0
        /\ \A key \in {"seconds", "start", "end"} : Cardinality(KeyPositions(req.query, key)) <= 1
        /\ NoEmptyPair(req.query)

\* GetFlips called with seconds 12, start -1 and end 0 sends seconds=12 alone
C10_Witness ==
    /\ op = "GetFlips" /\ pc = "done"
    /\ args.params = [Seconds |-> 12, Start |-> 0 - 1, End |-> 0]
    /\ req.query = <<W("seconds"), P("="), W("1"), W("2")>>

(***************************************************************************)
(* C11  address construction: the built address is the base address        *)
(* followed by exactly the segments passed, in order.  The operations are  *)
(* called with identifiers of every kind a caller can write, and answered  *)
(* at once.                                                                *)
(***************************************************************************)
MaxOptions == 2

AnyIdentifiers ==
    {<<"u", "1">>, <<"s">>, <<>>, <<"a", "/", "b">>, <<Dot>>, <<Dot, Dot>>}
AnyPingURLs ==
    {URL("https://hc-ping.com", q) :
        q \in {<<"/", "u", "1">>, <<"/", "u", "1", "/">>, <<>>, <<"/", "p", "/", "/", "u", "1">>}}
AnyPingOptions ==
    UNION {[1..k -> {"WithStart", "WithFail"}] : k \in 0..MaxOptions}

CreateCheckAny == CreateCheckWith(Answering("CreateCheck"))
GetCheckAny == GetCheckWith(AnyIdentifiers, Answering("GetCheck"))
UpdateCheckAny == UpdateCheckWith(AnyIdentifiers, Answering("UpdateCheck"))
DeleteCheckAny == DeleteCheckWith(AnyIdentifiers, Answering("DeleteCheck"))
PauseCheckAny == PauseCheckWith(AnyIdentifiers, Answering("PauseCheck"))
ResumeCheckAny == ResumeCheckWith(AnyIdentifiers, Answering("ResumeCheck"))
GetPingsAny == GetPingsWith(AnyIdentifiers, Answering("GetPings"))
GetPingBodyAny == GetPingBodyWith(AnyIdentifiers, Answering("GetPingBody"))
GetFlipsOfAny == GetFlipsWith(AnyIdentifiers, FewFlipsParams, Answering("GetFlips"))
PingAny == PingWith(AnyPingURLs, AnyPingOptions, Answering("Ping"))

NextAddress ==
    \/ CreateCheckAny \/ GetCheckAny \/ UpdateCheckAny \/ DeleteCheckAny
    \/ PauseCheckAny \/ ResumeCheckAny \/ GetPingsAny \/ GetPingBodyAny
    \/ GetFlipsOfAny \/ PingAny \/ Receive \/ NextCall

SpecAddress == Init /\ [][NextAddress]_vars

\* what stands between the slashes of a path, the slash it starts with and
\* the slash it ends with set aside: a double slash shows as an empty segment
Segments(q) ==
    LET from == IF HasPrefixSlash(q) THEN 2 ELSE 1
        to == IF Len(q) >= from /\ HasSuffixSlash(q) THEN Len(q) - 1 ELSE Len(q)
    IN IF to < from THEN <<>> ELSE Split(SubSeq(q, from, to))

\* the segments each operation passes, from the catalog of operations
ChecksWord == <<"c", "h", "e", "c", "k", "s">>
PassedSegments(o, a) ==
    CASE o \in {"CreateCheck", "GetChecks"} -> <<ChecksWord>>
      [] o = "GetCheck" -> <<ChecksWord, a.identifier>>
      [] o \in {"UpdateCheck", "DeleteCheck"} -> <<ChecksWord, a.uuid>>
      [] o = "PauseCheck" -> <<ChecksWord, a.uuid, <<"p", "a", "u", "s", "e">>>>
      [] o = "ResumeCheck" -> <<ChecksWord, a.uuid, <<"r", "e", "s", "u", "m", "e">>>>
      [] o = "GetPings" -> <<ChecksWord, a.identifier, <<"p", "i", "n", "g", "s">>>>
      [] o = "GetPingBody" ->
             <<ChecksWord, a.uuid, <<"p", "i", "n", "g", "s">>, <<"2">>, <<"b", "o", "d", "y">>>>
      [] o = "GetFlips" -> <<ChecksWord, a.identifier, <<"f", "l", "i", "p", "s">>>>

BaseSegments == <<<<"a", "p", "i">>, <<"v", "3">>>>

ApiOperation == op \notin {"none", "Ping"}

\* C11: the address of every request of an API operation is the base address
\* followed by exactly the segments passed, in their order: none dropped,
\* merged or injected, and no double slash
C11_AddressIsBaseThenSegments ==
    ApiOperation =>
        \A k \in 1..Len(sent) :
            /\ sent[k].url.root = "https://healthchecks.io"
            /\ Segments(sent[k].url.path) = BaseSegments \o PassedSegments(op, args)

(***************************************************************************)
(* C12  the address of a Ping: the ping address, and the suffixes of the   *)
(* options passed.                                                         *)
(***************************************************************************)
\* the ping address without the slash it may end with
Stem(q) == IF HasSuffixSlash(q) THEN SubSeq(q, 1, Len(q) - 1) ELSE q

StartSuffix == <<"/", "s", "t", "a", "r", "t">>
FailSuffix == <<"/", "f", "a", "i", "l">>

RECURSIVE Suffixes(_)
Suffixes(opts) ==
    IF opts = <<>> THEN <<>>
    ELSE (IF Head(opts) = "WithStart" THEN StartSuffix ELSE FailSuffix) \o Suffixes(Tail(opts))

\* a path written without empty, "." or ".." segments
CleanlyWritten(q) == \A i \in 1..Len(Segments(q)) : Segments(q)[i] \notin {<<>>, <<Dot>>, <<Dot, Dot>>}

C13_NoBodyLeftOpen == pc = "done" => openBodies = 0

====
